---- MODULE Spec2Model ----
(***************************************************************************)
(* Nearest-airport lookup (src/src/airports.rs): the CSV loader, the       *)
(* coordinate projection and the three AirportFinder strategies            *)
(* (KdTreeAirportFinder, HashAirportFinder, DoubleLoopAirportFinder).      *)
(*                                                                         *)
(* Numbers.  Latitudes and longitudes are whole degrees taken from Lats    *)
(* and Longs.  Angles in radians are held in thousandths of a radian and   *)
(* every other f32 quantity (a sine, a cosine, a component of a projected  *)
(* point) in thousandths; a squared distance is then in millionths.  On    *)
(* the coordinates of QueryCoords every comparison of two squared          *)
(* distances made in these units has the outcome the f32 arithmetic of the *)
(* program has: two distances are equal here exactly when they are equal   *)
(* in f32 (the two points are the same point, or mirror images in x of     *)
(* one another seen from a query whose x is 0), and otherwise they differ  *)
(* by more than 0.23.  The sine of 180 degrees, -8.7e-8 in f32, is held as *)
(* 0: the y it gives a point adds less than 1e-14 to a squared distance,   *)
(* which f32 addition rounds away.  NaN and infinite coordinates are       *)
(* outside the model.                                                      *)
(*                                                                         *)
(* A panic is an outcome: a constructor or a query that panics leaves a    *)
(* record of it, and the other operations stay callable (as when each      *)
(* call is made by its own test).                                          *)
(***************************************************************************)
EXTENDS Integers, Sequences, FiniteSets

\* Most records a file holds after its header row.
MaxRecords == 3

\* Latitudes and longitudes, in degrees.
Lats == {0, 40, 70}
Longs == {0, 50, 180}
\* Coordinates of the airports in the file: (0, 50) and (0, 180) are two
\* coordinates with one projected point; (40, 0) and (40, 180) project to
\* mirror images in x, at one distance from every query of latitude 0.
AirportCoords == {<<0, 50>>, <<0, 180>>, <<40, 0>>, <<40, 180>>, <<70, 50>>}
\* Coordinates of the queries: those of the airports and one no airport has.
QueryCoords == AirportCoords \cup {<<70, 0>>}
\* The id column of a row: never a position of a sequence of MaxRecords rows.
Ids == {7}

VARIABLES
    file,       \* what is at the path given to from_csv: whether a file
                \* can be read there, and its rows, header row first
    loaded,     \* "none", "ok" or "panicked": how from_csv ended
    airports,   \* the Vec<Airport> from_csv returned
    kd,         \* the KdTreeAirportFinder
    hash,       \* the HashAirportFinder
    dl,         \* the DoubleLoopAirportFinder
    last        \* the last closest_ind call and its outcome

vars == <<file, loaded, airports, kd, hash, dl, last>>

-----------------------------------------------------------------------------
\* Outcomes of a call that returns usize or panics.

Panic == [panicked |-> TRUE, ind |-> -1]
Ret(i) == [panicked |-> FALSE, ind |-> i]

\* a / b rounded to the nearest integer, halves away from zero (b > 0).
RoundDiv(a, b) ==
    IF a >= 0 THEN (a + b \div 2) \div b ELSE -((b \div 2 - a) \div b)

\* The product of two f32 values held in thousandths, in thousandths.
FixMul(a, b) == RoundDiv(a * b, 1000)

-----------------------------------------------------------------------------
\* The file and from_csv.

\* A row that tokenizes and decodes into (String, String, f32, f32, usize).
OkRows ==
    {r \in [kind : {"ok"}, name : {"Airport"}, abr : {"APT"},
            lat : Lats, long : Longs, id : Ids] :
        <<r.lat, r.long>> \in AirportCoords}
\* A row the reader cannot tokenize, and one that does not decode.
BadRows ==
    [kind : {"unparsable", "undecodable"}, name : {""}, abr : {""},
     lat : {0}, long : {0}, id : {0}]
\* The first row of a file: column titles, or a row that would decode.
HeaderRows ==
    {r \in BadRows : r.kind = "undecodable"}
        \cup {r \in OkRows : r.lat = 0 /\ r.long = 50}

SeqsUpTo(S, n) == UNION {[1..k -> S] : k \in 0..n}

\* The rows a readable file may hold.
FileRows ==
    {<<>>} \cup
    {<<h>> \o body : h \in HeaderRows, body \in SeqsUpTo(OkRows \cup BadRows, MaxRecords)}

\* What the path may lead to: a readable file and its rows, or no file that
\* can be opened.
Files ==
    [readable : {TRUE}, rows : FileRows] \cup [readable : {FALSE}, rows : {<<>>}]

\* Iterator::skip(n).
Skip(rows, n) ==
    IF Len(rows) <= n THEN <<>> ELSE SubSeq(rows, n + 1, Len(rows))

\* The closure of from_csv's map: the Airport of a row that decoded.
Airport(v) ==
    [name |-> v.name, abr |-> v.abr, lat |-> v.lat, long |-> v.long, id |-> v.id]

from_csv_no_skip(path) ==
    LET rows == path.rows IN
    IF ~path.readable THEN [panicked |-> TRUE, airports |-> <<>>]
    ELSE IF \E i \in 1..Len(rows) : rows[i].kind # "ok"
    THEN [panicked |-> TRUE, airports |-> <<>>]
    ELSE [panicked |-> FALSE,
          airports |-> [i \in 1..Len(rows) |-> Airport(rows[i])]]

\* from_csv: Csv::from_file is unwrapped (expect), which panics when the
\* file cannot be opened; then the rows after the first are each unwrapped
\* (expect) and decoded (expect), and the first expect that fails aborts
\* the whole call.
from_csv(path) ==
    LET rest == Skip(path.rows, 1) IN
    IF ~path.readable THEN [panicked |-> TRUE, airports |-> <<>>]
    ELSE IF \E i \in 1..Len(rest) : rest[i].kind # "ok"
    THEN [panicked |-> TRUE, airports |-> <<>>]
    ELSE [panicked |-> FALSE,
          airports |-> [i \in 1..Len(rest) |-> Airport(rest[i])]]

-----------------------------------------------------------------------------
\* lat_long_to_point.

\* f32::to_radians: degrees times pi/180, in thousandths of a radian.
ToRadians(deg) == RoundDiv(deg * 17453, 1000)

\* f32::sin and f32::cos, of an angle in thousandths of a radian.
Sin(r) ==
    CASE r = 0 -> 0
      [] r = 698 -> 643
      [] r = 873 -> 766
      [] r = 1222 -> 940
      [] r = 3142 -> 0

Cos(r) ==
    CASE r = 0 -> 1000
      [] r = 698 -> 766
      [] r = 873 -> 643
      [] r = 1222 -> 342
      [] r = 3142 -> -1000

lat_long_to_point(lat, long) ==
    LET lo == ToRadians(long)
        la == ToRadians(lat)
        x == FixMul(Cos(lo), Sin(la))
        y == FixMul(Sin(lo), Sin(la))
        z == Cos(la)
    IN  <<x, y, z>>

\* The sum over the three components of (x - y) * (x - y).
DistanceSquared(p, q) ==
    (p[1] - q[1]) * (p[1] - q[1]) + (p[2] - q[2]) * (p[2] - q[2])
        + (p[3] - q[3]) * (p[3] - q[3])

-----------------------------------------------------------------------------
\* DoubleLoopAirportFinder.

DoubleLoopAirportFinder_new(as) ==
    [i \in 1..Len(as) |-> lat_long_to_point(as[i].lat, as[i].long)]

\* The comparison closure of closest_ind, |(_, a), (_, b)| b.total_cmp(a).
CmpReversed(a, b) ==
    IF b < a THEN "Less" ELSE IF b > a THEN "Greater" ELSE "Equal"

CmpForward(a, b) ==
    IF a < b THEN "Less" ELSE IF a > b THEN "Greater" ELSE "Equal"

RECURSIVE MaxByFoldForward(_, _, _)
MaxByFoldForward(ds, best, i) ==
    IF i > Len(ds) THEN best
    ELSE IF CmpForward(ds[best], ds[i]) = "Greater"
         THEN MaxByFoldForward(ds, best, i + 1)
         ELSE MaxByFoldForward(ds, i, i + 1)

\* Iterator::max_by over enumerate(): a fold that keeps the element held
\* only when it compares Greater than the next one, so that of several
\* maximal elements the last is returned.  i is the 1-based position of the
\* next element, best the 1-based position held.
RECURSIVE MaxByFold(_, _, _)
MaxByFold(ds, best, i) ==
    IF i > Len(ds) THEN best
    ELSE IF CmpReversed(ds[best], ds[i]) = "Greater"
         THEN MaxByFold(ds, best, i + 1)
         ELSE MaxByFold(ds, i, i + 1)

RECURSIVE MaxByFoldFirst(_, _, _)
MaxByFoldFirst(ds, best, i) ==
    IF i > Len(ds) THEN best
    ELSE IF CmpReversed(ds[best], ds[i]) = "Less"
         THEN MaxByFoldFirst(ds, i, i + 1)
         ELSE MaxByFoldFirst(ds, best, i + 1)

\* The Vec<f32> of squared distances from the projected query.
Distances(points, lat, long) ==
    LET flight_point == lat_long_to_point(lat, long)
    IN  [i \in 1..Len(points) |-> DistanceSquared(flight_point, points[i])]

DoubleLoopAirportFinder_closest_ind_first_tie(points, lat, long) ==
    LET distances == Distances(points, lat, long)
    IN  IF Len(distances) = 0 THEN Panic
        ELSE Ret(MaxByFoldFirst(distances, 1, 2) - 1)

DoubleLoopAirportFinder_closest_ind_or_zero(points, lat, long) ==
    LET distances == Distances(points, lat, long)
    IN  IF Len(distances) = 0 THEN Ret(0)
        ELSE Ret(MaxByFold(distances, 1, 2) - 1)

\* closest_ind: max_by gives None on an empty iterator and unwrap panics.
DoubleLoopAirportFinder_closest_ind(points, lat, long) ==
    LET distances == Distances(points, lat, long)
    IN  IF Len(distances) = 0 THEN Panic
        ELSE Ret(MaxByFold(distances, 1, 2) - 1)

-----------------------------------------------------------------------------
\* HashAirportFinder.

\* The four bytes of an f32 in memory (little endian).
F32Bytes(v) ==
    CASE v = 0 -> <<0, 0, 0, 0>>
      [] v = 40 -> <<0, 0, 32, 66>>
      [] v = 70 -> <<0, 0, 140, 66>>
      [] v = 50 -> <<0, 0, 72, 66>>
      [] v = 180 -> <<0, 0, 52, 67>>

bucket_coord_lat_only(lat, long) == F32Bytes(lat) \o F32Bytes(lat)

\* bucket_coord: the eight bytes of the pair (lat, long).
bucket_coord(lat, long) == F32Bytes(lat) \o F32Bytes(long)

EmptyMap == [k \in {} |-> 0]

\* HashMap::insert: the map with key bound to value.
MapInsert(map, key, value) ==
    [k \in DOMAIN map \cup {key} |-> IF k = key THEN value ELSE map[k]]

\* The loop of HashAirportFinder::new from the record at 1-based position i:
\* insert returns Some when the key was already bound, and new panics.
RECURSIVE HashInsertFrom(_, _, _)
HashInsertFrom(map, as, i) ==
    IF i > Len(as) THEN [panicked |-> FALSE, map |-> map]
    ELSE LET key == bucket_coord(as[i].lat, as[i].long) IN
         IF key \in DOMAIN map
         THEN [panicked |-> TRUE, map |-> EmptyMap]
         ELSE HashInsertFrom(MapInsert(map, key, i - 1), as, i + 1)

RECURSIVE HashOverwriteFrom(_, _, _)
HashOverwriteFrom(map, as, i) ==
    IF i > Len(as) THEN [panicked |-> FALSE, map |-> map]
    ELSE HashOverwriteFrom(
             MapInsert(map, bucket_coord(as[i].lat, as[i].long), i - 1), as, i + 1)

HashAirportFinder_new_overwrite(as) == HashOverwriteFrom(EmptyMap, as, 1)

HashAirportFinder_new(as) == HashInsertFrom(EmptyMap, as, 1)

HashAirportFinder_closest_ind_or_zero(map, lat, long) ==
    LET bucket == bucket_coord(lat, long)
    IN  IF bucket \in DOMAIN map THEN Ret(map[bucket]) ELSE Ret(0)

\* closest_ind: the value bound to the query's key, or a panic.
HashAirportFinder_closest_ind(map, lat, long) ==
    LET bucket == bucket_coord(lat, long)
    IN  IF bucket \in DOMAIN map THEN Ret(map[bucket]) ELSE Panic

-----------------------------------------------------------------------------
\* KdTreeAirportFinder.  The tree is the kd_tree crate's: a slice of
\* (point, index) items laid out so that the item in the middle of every
\* sub-slice is a median of it along the sub-slice's axis.

\* The (point, index) pairs KdTreeAirportFinder::new collects.
spatial_ind(as) ==
    [i \in 1..Len(as) |->
        [point |-> lat_long_to_point(as[i].lat, as[i].long), ind |-> i - 1]]

\* What the build leaves of a slice sorted from `axis` (1..3) on: the item
\* at the middle is no less than those before it and no greater than those
\* after it along the axis, and the two sides are sorted from the next axis.
RECURSIVE KdSorted(_, _)
KdSorted(items, axis) ==
    IF Len(items) < 2 THEN TRUE
    ELSE LET mid == Len(items) \div 2 + 1
             next == (axis % 3) + 1
         IN  /\ \A i \in 1..(mid - 1) : items[i].point[axis] <= items[mid].point[axis]
             /\ \A i \in (mid + 1)..Len(items) : items[mid].point[axis] <= items[i].point[axis]
             /\ KdSorted(SubSeq(items, 1, mid - 1), next)
             /\ KdSorted(SubSeq(items, mid + 1, Len(items)), next)

\* KdMap::build_by_ordered_float: the selection it sorts with is unstable,
\* so any arrangement of the items that is sorted in the sense above may
\* be the tree.
KdBuildByOrderedFloat(items) ==
    LET n == Len(items)
        perms == {f \in [1..n -> 1..n] : \A i, j \in 1..n : f[i] = f[j] => i = j}
    IN  {t \in {[i \in 1..n |-> items[f[i]]] : f \in perms} : KdSorted(t, 1)}

\* The recursive descent of KdMap::nearest: nearest is the best item so far
\* and its squared distance; a strictly nearer middle item replaces it; the
\* side of the query is searched first, the other side only if the plane
\* through the middle item is nearer than the best.
RECURSIVE KdRecurse(_, _, _, _)
KdRecurse(nearest, kdtree, query, axis) ==
    LET mid == Len(kdtree) \div 2 + 1
        item == kdtree[mid]
        sq == DistanceSquared(query, item.point)
        n1 == IF sq < nearest.sq THEN [item |-> item, sq |-> sq] ELSE nearest
        before == SubSeq(kdtree, 1, mid - 1)
        after == SubSeq(kdtree, mid + 1, Len(kdtree))
        midPos == item.point[axis]
        branch1 == IF query[axis] < midPos THEN before ELSE after
        branch2 == IF query[axis] < midPos THEN after ELSE before
        next == (axis % 3) + 1
        diff == query[axis] - midPos
    IN  IF sq < nearest.sq /\ sq = 0 THEN n1
        ELSE LET n2 == IF branch1 # <<>>
                       THEN KdRecurse(n1, branch1, query, next) ELSE n1
             IN  IF branch2 # <<>> /\ diff * diff < n2.sq
                 THEN KdRecurse(n2, branch2, query, next) ELSE n2

\* KdMap::nearest: None for an empty tree, else the item found from the
\* first item of the slice.
KdNearest(kdtree, query) ==
    IF Len(kdtree) = 0 THEN [some |-> FALSE, ind |-> -1]
    ELSE LET start == [item |-> kdtree[1],
                       sq |-> DistanceSquared(query, kdtree[1].point)]
         IN  [some |-> TRUE, ind |-> KdRecurse(start, kdtree, query, 1).item.ind]

\* KdTreeAirportFinder::new: the trees it may build.
KdTreeAirportFinder_new(as) == KdBuildByOrderedFloat(spatial_ind(as))

\* closest_ind: expect panics on None.
KdTreeAirportFinder_closest_ind(tree, lat, long) ==
    LET point == lat_long_to_point(lat, long)
        found == KdNearest(tree, point)
    IN  IF found.some THEN Ret(found.ind) ELSE Panic

-----------------------------------------------------------------------------
\* The state machine.

NoCall == [finder |-> "none", lat |-> 0, long |-> 0, out |-> Panic]

Init ==
    /\ file \in Files
    /\ loaded = "none"
    /\ airports = <<>>
    /\ kd = [built |-> FALSE, tree |-> <<>>]
    /\ hash = [status |-> "none", map |-> EmptyMap]
    /\ dl = [built |-> FALSE, airports |-> <<>>]
    /\ last = NoCall

\* from_csv(path).
Load ==
    /\ loaded = "none"
    /\ LET r == from_csv(file) IN
        /\ loaded' = IF r.panicked THEN "panicked" ELSE "ok"
        /\ airports' = r.airports
    /\ UNCHANGED <<file, kd, hash, dl, last>>

\* KdTreeAirportFinder::new(&airports).
BuildKd ==
    /\ loaded = "ok"
    /\ ~kd.built
    /\ \E t \in KdTreeAirportFinder_new(airports) : kd' = [built |-> TRUE, tree |-> t]
    /\ UNCHANGED <<file, loaded, airports, hash, dl, last>>

\* HashAirportFinder::new(&airports).
BuildHash ==
    /\ loaded = "ok"
    /\ hash.status = "none"
    /\ LET r == HashAirportFinder_new(airports) IN
        hash' = [status |-> IF r.panicked THEN "panicked" ELSE "built",
                 map |-> r.map]
    /\ UNCHANGED <<file, loaded, airports, kd, dl, last>>

\* DoubleLoopAirportFinder::new(&airports).
BuildDl ==
    /\ loaded = "ok"
    /\ ~dl.built
    /\ dl' = [built |-> TRUE, airports |-> DoubleLoopAirportFinder_new(airports)]
    /\ UNCHANGED <<file, loaded, airports, kd, hash, last>>

\* closest_ind(&self, lat, long) on the KdTreeAirportFinder.
QueryKd ==
    /\ kd.built
    /\ \E lat \in Lats, long \in Longs :
        /\ <<lat, long>> \in QueryCoords
        /\ last' = [finder |-> "kd", lat |-> lat, long |-> long,
                      out |-> KdTreeAirportFinder_closest_ind(kd.tree, lat, long)]
    /\ UNCHANGED <<file, loaded, airports, kd, hash, dl>>

\* closest_ind(&self, lat, long) on the HashAirportFinder.
QueryHash ==
    /\ hash.status = "built"
    /\ \E lat \in Lats, long \in Longs :
        /\ <<lat, long>> \in QueryCoords
        /\ last' = [finder |-> "hash", lat |-> lat, long |-> long,
                      out |-> HashAirportFinder_closest_ind(hash.map, lat, long)]
    /\ UNCHANGED <<file, loaded, airports, kd, hash, dl>>

QueryDlDraining ==
    /\ dl.built
    /\ \E lat \in Lats, long \in Longs :
        /\ <<lat, long>> \in QueryCoords
        /\ last' = [finder |-> "dl", lat |-> lat, long |-> long,
                      out |-> DoubleLoopAirportFinder_closest_ind(dl.airports, lat, long)]
    /\ dl' = [dl EXCEPT !.airports = Skip(dl.airports, 1)]
    /\ UNCHANGED <<file, loaded, airports, kd, hash>>

\* closest_ind(&self, lat, long) on the DoubleLoopAirportFinder.
QueryDl ==
    /\ dl.built
    /\ \E lat \in Lats, long \in Longs :
        /\ <<lat, long>> \in QueryCoords
        /\ last' = [finder |-> "dl", lat |-> lat, long |-> long,
                      out |-> DoubleLoopAirportFinder_closest_ind(dl.airports, lat, long)]
    /\ UNCHANGED <<file, loaded, airports, kd, hash, dl>>

Next ==
    \/ Load
    \/ BuildDl
    \/ BuildHash
    \/ BuildKd
    \/ QueryDl
    \/ QueryHash
    \/ QueryKd

Spec == Init /\ [][Next]_vars

-----------------------------------------------------------------------------
\* Vocabulary of the properties, over the loaded record sequence.

N == Len(airports)

\* The squared distance from the projected query to the projected record at
\* 1-based position i.
RecDist(i, lat, long) ==
    DistanceSquared(lat_long_to_point(lat, long),
                    lat_long_to_point(airports[i].lat, airports[i].long))

\* The 1-based positions at the minimum squared distance from the query.
MinPositions(lat, long) ==
    {i \in 1..N : \A j \in 1..N : RecDist(i, lat, long) <= RecDist(j, lat, long)}

SetMin(S) == CHOOSE x \in S : \A y \in S : x <= y
SetMax(S) == CHOOSE x \in S : \A y \in S : x >= y

\* The record at 1-based position i has the coordinate pair (lat, long).
IsAt(i, lat, long) == airports[i].lat = lat /\ airports[i].long = long

\* Two records at distinct positions have the same coordinate pair.
HasCollision ==
    \E i, j \in 1..N : i # j /\ IsAt(j, airports[i].lat, airports[i].long)

\* The last call was answered by the DoubleLoopAirportFinder with an index.
DlAnswered == last.finder = "dl" /\ ~last.out.panicked

-----------------------------------------------------------------------------
\* C1: for every non-empty dataset and every query, KdTreeAirportFinder and
\* DoubleLoopAirportFinder built from it return the same index.  The build
\* of the tree is free in how it arranges items that are equal along an
\* axis, so the property is stated of the arrangements it may make: the
\* index the tree returned for the last query is the brute-force finder's
\* index for that query, or else at least one tree the build may make over
\* the dataset returns the brute-force finder's index for every query.
\* Where this fails the two finders have disagreed on a query and no
\* arrangement of equal items makes them agree.
C1_TreeEqualsBruteForce ==
    (last.finder = "kd" /\ dl.built /\ N > 0) =>
        \/ last.out = DoubleLoopAirportFinder_closest_ind(dl.airports, last.lat, last.long)
        \/ \E t \in KdTreeAirportFinder_new(airports) :
               \A q \in QueryCoords :
                   KdTreeAirportFinder_closest_ind(t, q[1], q[2])
                       = DoubleLoopAirportFinder_closest_ind(dl.airports, q[1], q[2])

\* C2 as claimed: of the positions at the minimum squared distance from the
\* query, DoubleLoopAirportFinder::closest_ind returns the smallest.
C2_EarliestOnTies ==
    DlAnswered => last.out.ind + 1 = SetMin(MinPositions(last.lat, last.long))

\* C2 amended: of the positions at the minimum squared distance from the
\* query, DoubleLoopAirportFinder::closest_ind returns the largest.
C2_LatestOnTies ==
    DlAnswered => last.out.ind + 1 = SetMax(MinPositions(last.lat, last.long))

\* A query answered with two distinct stored points at the minimum distance.
C2_Witness ==
    /\ DlAnswered
    /\ \E i, j \in MinPositions(last.lat, last.long) :
        /\ i < j
        /\ dl.airports[i] # dl.airports[j]
        /\ last.out.ind + 1 = j

\* C3: on each finder, a query with the coordinate pair of the record at
\* position i, a pair no other record has, returns i.
C3_ExactRoundTrip ==
    \A i \in 1..N :
        ( /\ last.finder # "none"
          /\ IsAt(i, last.lat, last.long)
          /\ \A j \in 1..N : IsAt(j, last.lat, last.long) => j = i )
        => last.out = Ret(i - 1)

\* C4 as claimed: with exactly one record every query on every finder
\* returns index 0.
C4_SingleRecordAlwaysZero ==
    (N = 1 /\ last.finder # "none") => last.out = Ret(0)

\* C4 amended: with exactly one record every query on the tree and the
\* brute-force finder returns index 0; on the hash finder a query with the
\* record's own coordinate pair returns 0 and every other query panics.
C4_SingleRecord ==
    N = 1 =>
        /\ last.finder \in {"kd", "dl"} => last.out = Ret(0)
        /\ last.finder = "hash" =>
            last.out = IF IsAt(1, last.lat, last.long) THEN Ret(0) ELSE Panic

\* One record, a hash query with another coordinate pair: a panic.
C4_Witness ==
    /\ N = 1
    /\ last.finder = "hash"
    /\ ~IsAt(1, last.lat, last.long)
    /\ last.out = Panic

\* C5: on a non-empty dataset DoubleLoopAirportFinder::closest_ind returns
\* a position of the record sequence (0..n-1, not an id) whose squared
\* distance from the query is at most that of every record.
C5_BruteForceMinimum ==
    (last.finder = "dl" /\ N > 0) =>
        /\ ~last.out.panicked
        /\ last.out.ind \in 0..(N - 1)
        /\ \A j \in 1..N :
            RecDist(last.out.ind + 1, last.lat, last.long)
                <= RecDist(j, last.lat, last.long)

\* Three records, the middle one strictly nearest and returned.
C5_Witness ==
    /\ DlAnswered
    /\ N = 3
    /\ last.out.ind = 1
    /\ RecDist(2, last.lat, last.long) < RecDist(1, last.lat, last.long)
    /\ RecDist(2, last.lat, last.long) < RecDist(3, last.lat, last.long)
    /\ airports[2].id # 1

\* C6: HashAirportFinder::new panics exactly when two records at distinct
\* positions have the same coordinate pair; otherwise the map has one entry
\* per record, from the record's key to its position.
C6_HashNew ==
    hash.status # "none" =>
        /\ (hash.status = "panicked") <=> HasCollision
        /\ hash.status = "built" =>
            /\ Cardinality(DOMAIN hash.map) = N
            /\ \A i \in 1..N :
                LET key == bucket_coord(airports[i].lat, airports[i].long)
                IN  key \in DOMAIN hash.map /\ hash.map[key] = i - 1

\* The constructor has panicked on a dataset whose first and last records
\* collide and whose middle record does not.
C6_Witness ==
    /\ hash.status = "panicked"
    /\ N = 3
    /\ IsAt(3, airports[1].lat, airports[1].long)
    /\ ~IsAt(2, airports[1].lat, airports[1].long)

\* C7: on a built HashAirportFinder a query with the coordinate pair of the
\* record at position i returns i, and a query with a pair no record has
\* panics.
C7_HashExactOnly ==
    last.finder = "hash" =>
        IF \E i \in 1..N : IsAt(i, last.lat, last.long)
        THEN \E i \in 1..N : IsAt(i, last.lat, last.long) /\ last.out = Ret(i - 1)
        ELSE last.out = Panic

\* A query that shares its latitude with a record and not its longitude
\* has panicked.
C7_Witness ==
    /\ last.finder = "hash"
    /\ last.out = Panic
    /\ N >= 2
    /\ \E i \in 1..N : airports[i].lat = last.lat /\ airports[i].long # last.long

\* C8: on each finder built from zero records every query panics.
C8_EmptyDatasetPanics ==
    (loaded = "ok" /\ N = 0 /\ last.finder # "none") => last.out = Panic

\* The brute-force finder of an empty dataset has been queried.
C8_Witness ==
    /\ loaded = "ok"
    /\ N = 0
    /\ dl.built
    /\ last.finder = "dl"
    /\ last.out = Panic

\* C9: of a file that can be read, when every row after the first decodes,
\* from_csv returns one record per row after the first, in file order
\* (none for a file of one row); when some row after the first does not,
\* from_csv panics and returns nothing.
C9_FromCsv ==
    (loaded # "none" /\ file.readable) =>
        IF \A i \in 2..Len(file.rows) : file.rows[i].kind = "ok"
        THEN /\ loaded = "ok"
             /\ N = (IF Len(file.rows) = 0 THEN 0 ELSE Len(file.rows) - 1)
             /\ \A i \in 1..N :
                 /\ airports[i].name = file.rows[i + 1].name
                 /\ airports[i].abr = file.rows[i + 1].abr
                 /\ airports[i].lat = file.rows[i + 1].lat
                 /\ airports[i].long = file.rows[i + 1].long
                 /\ airports[i].id = file.rows[i + 1].id
        ELSE loaded = "panicked" /\ N = 0

\* A file whose first row would decode was loaded: the row is skipped all
\* the same and the two rows after it are the records.
C9_Witness ==
    /\ loaded = "ok"
    /\ file.readable
    /\ Len(file.rows) = 3
    /\ file.rows[1].kind = "ok"
    /\ N = 2
    /\ airports[1].lat # airports[2].lat

\* What the finder named in `last` returns now for the query of `last`.
AnswerNow ==
    CASE last.finder = "kd" -> KdTreeAirportFinder_closest_ind(kd.tree, last.lat, last.long)
      [] last.finder = "hash" -> HashAirportFinder_closest_ind(hash.map, last.lat, last.long)
      [] last.finder = "dl" -> DoubleLoopAirportFinder_closest_ind(dl.airports, last.lat, last.long)
      [] OTHER -> last.out

\* C10: no closest_ind call changes a finder's index or the record
\* sequence, and repeating the last query on its finder, after any sequence
\* of calls, yields the outcome it yielded.
C10_QueriesReadOnly ==
    /\ [][last' # last => UNCHANGED <<file, loaded, airports, kd, hash, dl>>]_vars
    /\ [](last.out = AnswerNow)

\* All three finders stand built over three records and the brute-force
\* finder has answered a query.
C10_Witness ==
    /\ DlAnswered
    /\ N = 3
    /\ kd.built
    /\ hash.status = "built"
    /\ dl.airports = DoubleLoopAirportFinder_new(airports)

====
